---- MODULE Spec2Model ----
(***************************************************************************)
(* Model of magenta/models/performance_rnn/performance_model.py:           *)
(*   - PerformanceRnnModel.generate_performance                            *)
(*   - PerformanceRnnModel.performance_log_likelihood                      *)
(*   - PerformanceRnnConfig and the module-level dict default_configs      *)
(*                                                                         *)
(* Python values are tagged records [t |-> <type>, v |-> <payload>], so    *)
(* that None, an empty list, a scalar and a tuple are all distinct values. *)
(* Floats are fixed-point numbers counted in thousandths: F(5, 0) is 5.0   *)
(* and F(0, 1) is 0.001.                                                   *)
(***************************************************************************)
EXTENDS Integers, Sequences, FiniteSets, TLC

VARIABLES default_configs, op, args, calls, outcome

vars == <<default_configs, op, args, calls, outcome>>

(***************************************************************************)
(* Bounds of the model.                                                    *)
(***************************************************************************)
MaxSteps == 2
MaxDensity == 1
MaxLen == 2

(***************************************************************************)
(* Python values.                                                          *)
(***************************************************************************)
None == [t |-> "None"]
Omitted == [t |-> "omitted"]
PyInt(n) == [t |-> "int", v |-> n]
PyFloat(thousandths) == [t |-> "float", v |-> thousandths]
PyList(s) == [t |-> "list", v |-> s]
PyTuple(s) == [t |-> "tuple", v |-> s]
PyVector(s) == [t |-> "vector", v |-> s]
Performance(events) == [t |-> "Performance", v |-> events]

F(whole, thousandths) == PyFloat(whole * 1000 + thousandths)

\* len(x) of a list or of a Performance
PyLen(x) == Len(x.v)

\* [x] * n : n copies of x; Python yields the empty list when n <= 0
ListTimes(x, n) == PyList([i \in 1..(IF n > 0 THEN n ELSE 0) |-> x])

\* a keyword parameter with a default value in a def's signature
Default(arg, dflt) == IF arg = Omitted THEN dflt ELSE arg

\* exceptions
Raise(cls, what) == [kind |-> "raise", cls |-> cls, value |-> what]
Return(value) == [kind |-> "return", value |-> value]

(***************************************************************************)
(* The external value objects the registry is composed of.  Only their     *)
(* construction is modelled: which class, with which arguments.            *)
(***************************************************************************)
GeneratorDetails(id, description) ==
    [cls |-> "GeneratorDetails", id |-> id, description |-> description]

HParams(batch_size, rnn_layer_sizes, dropout_keep_prob, clip_norm, learning_rate) ==
    [cls |-> "HParams", batch_size |-> batch_size,
     rnn_layer_sizes |-> rnn_layer_sizes,
     dropout_keep_prob |-> dropout_keep_prob, clip_norm |-> clip_norm,
     learning_rate |-> learning_rate]

PerformanceOneHotEncoding(num_velocity_bins) ==
    [cls |-> "PerformanceOneHotEncoding", num_velocity_bins |-> num_velocity_bins]

NoteDensityOneHotEncoding(density_bin_ranges) ==
    [cls |-> "NoteDensityOneHotEncoding", density_bin_ranges |-> density_bin_ranges]

PitchHistogramEncoderDecoder == [cls |-> "PitchHistogramEncoderDecoder"]

OneHotEventSequenceEncoderDecoder(one_hot_encoding) ==
    [cls |-> "OneHotEventSequenceEncoderDecoder", one_hot_encoding |-> one_hot_encoding]

MultipleEventSequenceEncoder(encoders) ==
    [cls |-> "MultipleEventSequenceEncoder", encoders |-> encoders]

ConditionalEventSequenceEncoderDecoder(control_encoder_decoder, target_encoder_decoder) ==
    [cls |-> "ConditionalEventSequenceEncoderDecoder",
     control |-> control_encoder_decoder, target |-> target_encoder_decoder]

\* the hyperparameters every entry of default_configs is given
DefaultHParams ==
    HParams(PyInt(64), PyList(<<PyInt(512), PyInt(512), PyInt(512)>>),
            F(1, 0), PyInt(3), F(0, 1))

\* [1.0, 2.0, 4.0, 8.0, 16.0, 32.0, 64.0]
DensityBinRanges ==
    PyList(<<F(1, 0), F(2, 0), F(4, 0), F(8, 0), F(16, 0), F(32, 0), F(64, 0)>>)

\* PerformanceRnnConfig with the two window sizes stored crosswise
PerformanceRnnConfig_WindowsSwapped(details, encoder_decoder, hparams, num_velocity_bins, density_bin_ranges, density_window_size, pitch_histogram_window_size) ==
    [details |-> details,
     encoder_decoder |-> encoder_decoder,
     hparams |-> hparams,
     num_velocity_bins |-> Default(num_velocity_bins, PyInt(0)),
     density_bin_ranges |-> Default(density_bin_ranges, None),
     density_window_size |-> Default(pitch_histogram_window_size, None),
     pitch_histogram_window_size |-> Default(density_window_size, F(3, 0))]

(***************************************************************************)
(* class PerformanceRnnConfig: __init__ stores its arguments; a keyword    *)
(* argument that is left out takes the default of the signature.           *)
(***************************************************************************)
PerformanceRnnConfig(details, encoder_decoder, hparams, num_velocity_bins, density_bin_ranges, density_window_size, pitch_histogram_window_size) ==
    [details |-> details,
     encoder_decoder |-> encoder_decoder,
     hparams |-> hparams,
     num_velocity_bins |-> Default(num_velocity_bins, PyInt(0)),
     density_bin_ranges |-> Default(density_bin_ranges, None),
     density_window_size |-> Default(density_window_size, F(3, 0)),
     pitch_histogram_window_size |-> Default(pitch_histogram_window_size, None)]

ConfigPerformance ==
    PerformanceRnnConfig(
        GeneratorDetails("performance", "Performance RNN"),
        OneHotEventSequenceEncoderDecoder(PerformanceOneHotEncoding(Omitted)),
        DefaultHParams,
        Omitted, Omitted, Omitted, Omitted)

ConfigPerformanceWithDynamics ==
    PerformanceRnnConfig(
        GeneratorDetails("performance_with_dynamics",
                         "Performance RNN with dynamics"),
        OneHotEventSequenceEncoderDecoder(PerformanceOneHotEncoding(PyInt(32))),
        DefaultHParams,
        PyInt(32), Omitted, Omitted, Omitted)

ConfigDensityConditioned ==
    PerformanceRnnConfig(
        GeneratorDetails("density_conditioned_performance_with_dynamics",
                         "Note-density-conditioned Performance RNN + dynamics"),
        ConditionalEventSequenceEncoderDecoder(
            OneHotEventSequenceEncoderDecoder(
                NoteDensityOneHotEncoding(DensityBinRanges)),
            OneHotEventSequenceEncoderDecoder(
                PerformanceOneHotEncoding(PyInt(32)))),
        DefaultHParams,
        PyInt(32), DensityBinRanges, F(3, 0), Omitted)

\* the pitch-conditioned entry built on a copy of the density-conditioned
\* entry's control encoder
ConfigPitchConditioned_DensityEncoder ==
    PerformanceRnnConfig(
        GeneratorDetails("pitch_conditioned_performance_with_dynamics",
                         "Pitch-histogram-conditioned Performance RNN"),
        ConditionalEventSequenceEncoderDecoder(
            OneHotEventSequenceEncoderDecoder(
                NoteDensityOneHotEncoding(DensityBinRanges)),
            OneHotEventSequenceEncoderDecoder(
                PerformanceOneHotEncoding(PyInt(32)))),
        DefaultHParams,
        PyInt(32), Omitted, Omitted, F(5, 0))

ConfigPitchConditioned ==
    PerformanceRnnConfig(
        GeneratorDetails("pitch_conditioned_performance_with_dynamics",
                         "Pitch-histogram-conditioned Performance RNN"),
        ConditionalEventSequenceEncoderDecoder(
            PitchHistogramEncoderDecoder,
            OneHotEventSequenceEncoderDecoder(
                PerformanceOneHotEncoding(PyInt(32)))),
        DefaultHParams,
        PyInt(32), Omitted, Omitted, F(5, 0))

ConfigMulticonditioned ==
    PerformanceRnnConfig(
        GeneratorDetails("multiconditioned_performance_with_dynamics",
                         "Density- and pitch-conditioned Performance RNN"),
        ConditionalEventSequenceEncoderDecoder(
            MultipleEventSequenceEncoder(<<
                OneHotEventSequenceEncoderDecoder(
                    NoteDensityOneHotEncoding(DensityBinRanges)),
                PitchHistogramEncoderDecoder>>),
            OneHotEventSequenceEncoderDecoder(
                PerformanceOneHotEncoding(PyInt(32)))),
        DefaultHParams,
        PyInt(32), DensityBinRanges, F(3, 0), F(5, 0))

\* default_configs = { ... } : a plain dict, built when the module is loaded
DefaultConfigs ==
    ("performance" :> ConfigPerformance) @@
    ("performance_with_dynamics" :> ConfigPerformanceWithDynamics) @@
    ("density_conditioned_performance_with_dynamics" :> ConfigDensityConditioned) @@
    ("pitch_conditioned_performance_with_dynamics" :> ConfigPitchConditioned) @@
    ("multiconditioned_performance_with_dynamics" :> ConfigMulticonditioned)

(***************************************************************************)
(* Inputs of the calls.                                                    *)
(***************************************************************************)
\* Performance objects: event sequences of up to MaxLen events
Performances == {Performance([i \in 1..n |-> "NOTE_ON"]) : n \in 0..MaxLen}

\* a desired note density is a number, 0 included, or None (the default)
NoteDensities == {None} \cup {PyInt(d) : d \in 0..MaxDensity}

\* a pitch class histogram is a vector of twelve weights, or None (the default)
PitchHistograms ==
    {None, PyVector([i \in 1..12 |-> IF i \in {1, 5, 8} THEN 1 ELSE 0])}

\* the optional generation parameters <<temperature, beam_size,
\* branch_factor, steps_per_iteration>> of a call: all left out, one of them
\* given, or all given.  The values given differ from each other and from
\* every default.
OptionalArgs ==
    {<<Omitted, Omitted, Omitted, Omitted>>,
     <<F(0, 500), Omitted, Omitted, Omitted>>,
     <<Omitted, PyInt(2), Omitted, Omitted>>,
     <<Omitted, Omitted, PyInt(3), Omitted>>,
     <<Omitted, Omitted, Omitted, PyInt(4)>>,
     <<F(0, 500), PyInt(2), PyInt(3), PyInt(4)>>}

\* names a caller may look up in default_configs
ConfigNames == DOMAIN DefaultConfigs \cup {"melody_rnn", "PERFORMANCE", ""}

(***************************************************************************)
(* The collaborators of the base class EventSequenceRnnModel.  A call      *)
(* either returns or raises; which, and what, is the environment's choice. *)
(***************************************************************************)
CollaboratorErrors ==
    {Raise("EventSequenceRnnModelException", "primer too long")}

GenerateEventsChoices ==
    {Return(p) : p \in {Performance(<<"NOTE_ON">>),
                        Performance(<<"TIME_SHIFT", "NOTE_ON">>)}}
    \cup CollaboratorErrors

EvaluateLogLikelihoodChoices ==
    {Return(ll) : ll \in {F(0 - 1, 0), F(0 - 7, 500)}} \cup CollaboratorErrors

\* _generate_events(...) -> the generated event sequence
_generate_events(call, choice) == choice

\* _evaluate_log_likelihood(sequences, ...) -> a list, one log likelihood
\* per sequence of the batch
_evaluate_log_likelihood(call, choice) ==
    IF choice.kind = "raise" THEN choice
    ELSE Return(PyList([i \in 1..PyLen(call.positional[1]) |-> choice.value]))

\* the answers the collaborator gives to a first and to a further call
Answers(choices) == {<<c, c>> : c \in choices}

\* x[0]
GetItem0(x) ==
    IF PyLen(x) > 0 THEN Return(x.v[1])
    ELSE Raise("IndexError", "list index out of range")

(***************************************************************************)
(* PerformanceRnnModel.generate_performance                                *)
(***************************************************************************)
\* the chain with the combined branch tested after the single ones, so
\* that it is never taken
GenerateControlEvents_NoPair(num_steps, note_density, pitch_histogram) ==
    IF note_density # None
    THEN ListTimes(note_density, num_steps.v)
    ELSE IF pitch_histogram # None
    THEN ListTimes(pitch_histogram, num_steps.v)
    ELSE IF note_density # None /\ pitch_histogram # None
    THEN ListTimes(PyTuple(<<note_density, pitch_histogram>>), num_steps.v)
    ELSE None

\* the chain with an empty list, not None, in the last branch
GenerateControlEvents_EmptyList(num_steps, note_density, pitch_histogram) ==
    IF note_density # None /\ pitch_histogram # None
    THEN ListTimes(PyTuple(<<note_density, pitch_histogram>>), num_steps.v)
    ELSE IF note_density # None
    THEN ListTimes(note_density, num_steps.v)
    ELSE IF pitch_histogram # None
    THEN ListTimes(pitch_histogram, num_steps.v)
    ELSE PyList(<<>>)

\* the if / elif chain that builds control_events
GenerateControlEvents(num_steps, note_density, pitch_histogram) ==
    IF note_density # None /\ pitch_histogram # None
    THEN ListTimes(PyTuple(<<note_density, pitch_histogram>>), num_steps.v)
    ELSE IF note_density # None
    THEN ListTimes(note_density, num_steps.v)
    ELSE IF pitch_histogram # None
    THEN ListTimes(pitch_histogram, num_steps.v)
    ELSE None

\* the call with beam_size and branch_factor in each other's place
GenerateEventsCall_Swapped(num_steps, primer_sequence, temperature, beam_size, branch_factor, steps_per_iteration, note_density, pitch_histogram) ==
    [fn |-> "_generate_events",
     positional |-> <<num_steps, primer_sequence, temperature, branch_factor,
                      beam_size, steps_per_iteration>>,
     control_events |->
         GenerateControlEvents(num_steps, note_density, pitch_histogram)]

\* the call of self._generate_events: positional arguments in order, and
\* the keyword argument control_events
GenerateEventsCall(num_steps, primer_sequence, temperature, beam_size, branch_factor, steps_per_iteration, note_density, pitch_histogram) ==
    [fn |-> "_generate_events",
     positional |-> <<num_steps, primer_sequence, temperature, beam_size,
                      branch_factor, steps_per_iteration>>,
     control_events |->
         GenerateControlEvents(num_steps, note_density, pitch_histogram)]

\* the method calling the collaborator a second time when the first call
\* raises
generate_performance_Retry(num_steps, primer_sequence, temperature, beam_size, branch_factor, steps_per_iteration, note_density, pitch_histogram, env) ==
    LET call == GenerateEventsCall(
                    num_steps, primer_sequence,
                    Default(temperature, F(1, 0)),
                    Default(beam_size, PyInt(1)),
                    Default(branch_factor, PyInt(1)),
                    Default(steps_per_iteration, PyInt(1)),
                    Default(note_density, None),
                    Default(pitch_histogram, None))
        first == _generate_events(call, env[1])
    IN IF first.kind = "raise"
       THEN [calls |-> <<call, call>>, outcome |-> _generate_events(call, env[2])]
       ELSE [calls |-> <<call>>, outcome |-> first]

\* the whole method: the signature's defaults, the one call, its result
\* returned as it is.  env[i] is the collaborator's answer to its i-th call.
generate_performance(num_steps, primer_sequence, temperature, beam_size, branch_factor, steps_per_iteration, note_density, pitch_histogram, env) ==
    LET call == GenerateEventsCall(
                    num_steps, primer_sequence,
                    Default(temperature, F(1, 0)),
                    Default(beam_size, PyInt(1)),
                    Default(branch_factor, PyInt(1)),
                    Default(steps_per_iteration, PyInt(1)),
                    Default(note_density, None),
                    Default(pitch_histogram, None))
    IN [calls |-> <<call>>, outcome |-> _generate_events(call, env[1])]

(***************************************************************************)
(* PerformanceRnnModel.performance_log_likelihood                          *)
(***************************************************************************)
\* truthiness of a Python value: None and the numbers equal to 0 are false
Truthy(x) == x # None /\ (x.t \in {"int", "float"} => x.v # 0)

\* the chain with `if note_density` where the code has
\* `if note_density is not None`
LikelihoodControlEvents_Truthy(sequence, note_density, pitch_histogram) ==
    IF Truthy(note_density) /\ Truthy(pitch_histogram)
    THEN ListTimes(PyTuple(<<note_density, pitch_histogram>>), PyLen(sequence))
    ELSE IF Truthy(note_density)
    THEN ListTimes(note_density, PyLen(sequence))
    ELSE IF Truthy(pitch_histogram)
    THEN ListTimes(pitch_histogram, PyLen(sequence))
    ELSE None

LikelihoodControlEvents(sequence, note_density, pitch_histogram) ==
    IF note_density # None /\ pitch_histogram # None
    THEN ListTimes(PyTuple(<<note_density, pitch_histogram>>), PyLen(sequence))
    ELSE IF note_density # None
    THEN ListTimes(note_density, PyLen(sequence))
    ELSE IF pitch_histogram # None
    THEN ListTimes(pitch_histogram, PyLen(sequence))
    ELSE None

\* the call of self._evaluate_log_likelihood([sequence], control_events=...)
EvaluateLogLikelihoodCall(sequence, note_density, pitch_histogram) ==
    [fn |-> "_evaluate_log_likelihood",
     positional |-> <<PyList(<<sequence>>)>>,
     control_events |->
         LikelihoodControlEvents(sequence, note_density, pitch_histogram)]

\* the method without the [0] that unwraps the evaluator's list
performance_log_likelihood_NoUnwrap(sequence, note_density, pitch_histogram, env) ==
    LET call == EvaluateLogLikelihoodCall(
                    sequence,
                    Default(note_density, None),
                    Default(pitch_histogram, None))
    IN [calls |-> <<call>>,
        outcome |-> _evaluate_log_likelihood(call, env[1])]

performance_log_likelihood(sequence, note_density, pitch_histogram, env) ==
    LET call == EvaluateLogLikelihoodCall(
                    sequence,
                    Default(note_density, None),
                    Default(pitch_histogram, None))
        answer == _evaluate_log_likelihood(call, env[1])
    IN [calls |-> <<call>>,
        outcome |-> IF answer.kind = "raise" THEN answer
                    ELSE GetItem0(answer.value)]

\* a lookup that answers a missing key with the plain configuration and
\* keeps it under that key (dict.setdefault)
DictGetItem_SetDefault(dict, name) ==
    IF name \in DOMAIN dict
    THEN [dict |-> dict, outcome |-> Return(dict[name])]
    ELSE [dict |-> (name :> dict["performance"]) @@ dict,
          outcome |-> Return(dict["performance"])]

(***************************************************************************)
(* default_configs[name]: subscripting a plain dict.  A missing key raises *)
(* KeyError; the dict is the same afterwards.                              *)
(***************************************************************************)
DictGetItem(dict, name) ==
    [dict |-> dict,
     outcome |-> IF name \in DOMAIN dict THEN Return(dict[name])
                 ELSE Raise("KeyError", name)]

(***************************************************************************)
(* The state machine: the state is the registry and the record of the last *)
(* call (its arguments, the collaborator calls it made, how it ended).     *)
(***************************************************************************)
Init ==
    /\ default_configs = DefaultConfigs
    /\ op = "import"
    /\ args = <<>>
    /\ calls = <<>>
    /\ outcome = Return(None)

GeneratePerformance ==
    \E num_steps \in {PyInt(n) : n \in 0..MaxSteps},
       primer_sequence \in Performances,
       optional \in OptionalArgs,
       note_density \in NoteDensities,
       pitch_histogram \in PitchHistograms,
       env \in Answers(GenerateEventsChoices) :
        LET temperature == optional[1]
            beam_size == optional[2]
            branch_factor == optional[3]
            steps_per_iteration == optional[4]
            r == generate_performance(
                     num_steps, primer_sequence, temperature, beam_size,
                     branch_factor, steps_per_iteration, note_density,
                     pitch_histogram, env)
        IN /\ op' = "generate_performance"
           /\ args' = [num_steps |-> num_steps,
                       primer_sequence |-> primer_sequence,
                       temperature |-> temperature,
                       beam_size |-> beam_size,
                       branch_factor |-> branch_factor,
                       steps_per_iteration |-> steps_per_iteration,
                       note_density |-> note_density,
                       pitch_histogram |-> pitch_histogram,
                       answer |-> env[1]]
           /\ calls' = r.calls
           /\ outcome' = r.outcome
           /\ UNCHANGED default_configs

PerformanceLogLikelihood ==
    \E sequence \in Performances,
       note_density \in NoteDensities,
       pitch_histogram \in PitchHistograms,
       env \in Answers(EvaluateLogLikelihoodChoices) :
        LET r == performance_log_likelihood(
                     sequence, note_density, pitch_histogram, env)
        IN /\ op' = "performance_log_likelihood"
           /\ args' = [sequence |-> sequence,
                       note_density |-> note_density,
                       pitch_histogram |-> pitch_histogram,
                       answer |-> env[1]]
           /\ calls' = r.calls
           /\ outcome' = r.outcome
           /\ UNCHANGED default_configs

Lookup ==
    \E name \in ConfigNames :
        LET r == DictGetItem(default_configs, name)
        IN /\ op' = "lookup"
           /\ args' = [name |-> name]
           /\ calls' = <<>>
           /\ outcome' = r.outcome
           /\ default_configs' = r.dict

Next == GeneratePerformance \/ PerformanceLogLikelihood \/ Lookup

Spec == Init /\ [][Next]_vars
(***************************************************************************)
(* Properties.                                                             *)
(***************************************************************************)
IsCall == op \in {"generate_performance", "performance_log_likelihood"}

\* N: num_steps of generate_performance, len(sequence) of
\* performance_log_likelihood
StepCount ==
    IF op = "generate_performance" THEN args.num_steps.v ELSE PyLen(args.sequence)

\* the control_events argument the collaborator was handed
ControlArgument == calls[1].control_events

\* x is a Python list of exactly n elements, each equal to e
IsListOf(x, n, e) ==
    /\ x.t = "list"
    /\ Len(x.v) = n
    /\ \A i \in 1..n : x.v[i] = e

RegisteredNames ==
    {"performance", "performance_with_dynamics",
     "density_conditioned_performance_with_dynamics",
     "pitch_conditioned_performance_with_dynamics",
     "multiconditioned_performance_with_dynamics"}

C2_OneGivenYieldsCopies ==
    (/\ IsCall
     /\ (args.note_density = None) # (args.pitch_histogram = None))
    => /\ Len(calls) = 1
       /\ IsListOf(ControlArgument, StepCount,
                   IF args.note_density # None THEN args.note_density
                   ELSE args.pitch_histogram)

C2_Witness ==
    /\ op = "performance_log_likelihood"
    /\ args.note_density = PyInt(0)
    /\ args.pitch_histogram = None
    /\ PyLen(args.sequence) = 2
    /\ Len(calls) = 1
    /\ ControlArgument = PyList(<<PyInt(0), PyInt(0)>>)

\* C3: the control argument is None exactly when note_density and
\* pitch_histogram are both None, whatever N is; with a value given it is a
\* list, the empty list when N = 0.
C3_NoneIffUnconditioned ==
    IsCall
    => /\ Len(calls) = 1
       /\ (ControlArgument = None)
              <=> (args.note_density = None /\ args.pitch_histogram = None)
       /\ ControlArgument # None
              => (ControlArgument.t = "list" /\ Len(ControlArgument.v) = StepCount)

C3_Witness ==
    /\ op = "generate_performance"
    /\ args.note_density = None
    /\ args.pitch_histogram = None
    /\ args.num_steps = PyInt(0)
    /\ Len(calls) = 1
    /\ ControlArgument = None
    /\ ControlArgument # PyList(<<>>)

\* C4: a call of either method with note_density and pitch_histogram both
\* given ends in ValueError.
C4_BothGivenRaisesValueError ==
    (/\ IsCall
     /\ args.note_density # None
     /\ args.pitch_histogram # None)
    => (outcome.kind = "raise" /\ outcome.cls = "ValueError")

\* C5: performance_log_likelihood submits the one-element batch [sequence]
\* with a control argument that is None or of len(sequence) elements, and
\* returns the only element of the evaluator's list, not the list.
C5_SingleBatchUnwrapped ==
    op = "performance_log_likelihood"
    => /\ Len(calls) = 1
       /\ calls[1].fn = "_evaluate_log_likelihood"
       /\ calls[1].positional = <<PyList(<<args.sequence>>)>>
       /\ \/ ControlArgument = None
          \/ (ControlArgument.t = "list"
              /\ Len(ControlArgument.v) = PyLen(args.sequence))
       /\ LET result == _evaluate_log_likelihood(calls[1], args.answer)
          IN result.kind = "return"
             => /\ Len(result.value.v) = 1
                /\ outcome = Return(result.value.v[1])
                /\ outcome.value.t = "float"

C5_Witness ==
    /\ op = "performance_log_likelihood"
    /\ PyLen(args.sequence) = 2
    /\ args.note_density = None
    /\ args.pitch_histogram = None
    /\ ControlArgument = None
    /\ args.answer = Return(F(0 - 7, 500))
    /\ outcome = Return(F(0 - 7, 500))

\* C6: generate_performance passes num_steps, primer_sequence, temperature,
\* beam_size, branch_factor and steps_per_iteration on in this order, a
\* parameter left out as 1.0, 1, 1 and 1, with a control argument that is
\* None or of num_steps elements, and returns the generator's result.
C6_ForwardsArguments ==
    op = "generate_performance"
    => /\ Len(calls) = 1
       /\ calls[1].fn = "_generate_events"
       /\ calls[1].positional =
              <<args.num_steps,
                args.primer_sequence,
                IF args.temperature = Omitted THEN F(1, 0) ELSE args.temperature,
                IF args.beam_size = Omitted THEN PyInt(1) ELSE args.beam_size,
                IF args.branch_factor = Omitted THEN PyInt(1) ELSE args.branch_factor,
                IF args.steps_per_iteration = Omitted THEN PyInt(1)
                ELSE args.steps_per_iteration>>
       /\ \/ ControlArgument = None
          \/ (ControlArgument.t = "list"
              /\ Len(ControlArgument.v) = args.num_steps.v)
       /\ args.answer.kind = "return" => outcome = args.answer

C6_Witness ==
    /\ op = "generate_performance"
    /\ args.num_steps = PyInt(2)
    /\ PyLen(args.primer_sequence) = 1
    /\ args.temperature = Omitted
    /\ args.beam_size = PyInt(2)
    /\ args.branch_factor = Omitted
    /\ args.note_density = PyInt(1)
    /\ calls[1].positional[3] = F(1, 0)
    /\ calls[1].positional[4] = PyInt(2)
    /\ calls[1].positional[5] = PyInt(1)
    /\ Len(ControlArgument.v) = 2
    /\ outcome = Return(Performance(<<"TIME_SHIFT", "NOTE_ON">>))

\* C7: in every reachable state default_configs holds exactly the five
\* registered keys with the documented feature flags.
C7_RegistryFixed ==
    /\ DOMAIN default_configs = RegisteredNames
    /\ \A k \in RegisteredNames :
        LET c == default_configs[k]
        IN /\ c.num_velocity_bins =
                  (IF k = "performance" THEN PyInt(0) ELSE PyInt(32))
           /\ c.density_bin_ranges =
                  (IF k \in {"density_conditioned_performance_with_dynamics",
                             "multiconditioned_performance_with_dynamics"}
                   THEN PyList(<<F(1, 0), F(2, 0), F(4, 0), F(8, 0),
                                 F(16, 0), F(32, 0), F(64, 0)>>)
                   ELSE None)
           /\ c.pitch_histogram_window_size =
                  (IF k \in {"pitch_conditioned_performance_with_dynamics",
                             "multiconditioned_performance_with_dynamics"}
                   THEN F(5, 0)
                   ELSE None)

C7_Witness ==
    /\ op = "lookup"
    /\ args.name = "multiconditioned_performance_with_dynamics"
    /\ outcome.kind = "return"
    /\ outcome.value.num_velocity_bins = PyInt(32)
    /\ outcome.value.pitch_histogram_window_size = F(5, 0)
    /\ Cardinality(DOMAIN default_configs) = 5

\* C8: a lookup of a name that is no key of the registry ends in KeyError,
\* returns no configuration, and leaves the registry as it was, without
\* an entry for the name.
C8_UnknownNameKeyError ==
    [][(op' = "lookup" /\ args'.name \notin DOMAIN default_configs)
       => /\ outcome'.kind = "raise"
          /\ outcome'.cls = "KeyError"
          /\ args'.name \notin DOMAIN default_configs'
          /\ default_configs' = default_configs]_vars

C8_Witness ==
    /\ op = "lookup"
    /\ args.name = "melody_rnn"
    /\ outcome = Raise("KeyError", "melody_rnn")
    /\ "melody_rnn" \notin DOMAIN default_configs

\* C9: each call of either method calls its collaborator exactly once and
\* ends as that call ended: with the same exception when it raised, with
\* its result (for the log likelihood, the element of its list) otherwise.
C9_OneCallPassThrough ==
    IsCall
    => /\ Len(calls) = 1
       /\ calls[1].fn = (IF op = "generate_performance" THEN "_generate_events"
                         ELSE "_evaluate_log_likelihood")
       /\ args.answer.kind = "raise" => outcome = args.answer
       /\ args.answer.kind = "return"
              => /\ outcome.kind = "return"
                 /\ outcome.value = args.answer.value

C9_Witness ==
    /\ op = "generate_performance"
    /\ args.answer.kind = "raise"
    /\ Len(calls) = 1
    /\ outcome = Raise("EventSequenceRnnModelException", "primer too long")

\* the parts of an entry's encoder_decoder
IsConditional(enc) == enc.cls = "ConditionalEventSequenceEncoderDecoder"

EventEncoding(enc) ==
    IF IsConditional(enc) THEN enc.target.one_hot_encoding
    ELSE enc.one_hot_encoding

ControlEncoders(enc) ==
    IF ~IsConditional(enc) THEN {}
    ELSE IF enc.control.cls = "MultipleEventSequenceEncoder"
    THEN {enc.control.encoders[i] : i \in DOMAIN enc.control.encoders}
    ELSE {enc.control}

DensityEncodings(enc) ==
    {c.one_hot_encoding :
        c \in {x \in ControlEncoders(enc) :
                  /\ x.cls = "OneHotEventSequenceEncoderDecoder"
                  /\ x.one_hot_encoding.cls = "NoteDensityOneHotEncoding"}}

HasPitchEncoder(enc) ==
    \E c \in ControlEncoders(enc) : c.cls = "PitchHistogramEncoderDecoder"

\* C10: every entry's feature fields agree with its encoder_decoder: the
\* velocity bins with those of the PerformanceOneHotEncoding (0 when it is
\* given none), density_bin_ranges with the NoteDensityOneHotEncoding of
\* the control encoder, pitch_histogram_window_size with the presence of a
\* PitchHistogramEncoderDecoder, and the encoder is conditional exactly
\* when one of the two conditioning fields is set.
C10_FieldsAgreeWithEncoder ==
    \A k \in DOMAIN default_configs :
        LET c == default_configs[k]
            enc == c.encoder_decoder
        IN /\ EventEncoding(enc).cls = "PerformanceOneHotEncoding"
           /\ c.num_velocity_bins =
                  (IF EventEncoding(enc).num_velocity_bins = Omitted
                   THEN PyInt(0)
                   ELSE EventEncoding(enc).num_velocity_bins)
           /\ (c.density_bin_ranges # None) <=> (DensityEncodings(enc) # {})
           /\ \A e \in DensityEncodings(enc) :
                  e.density_bin_ranges = c.density_bin_ranges
           /\ (c.pitch_histogram_window_size # None) <=> HasPitchEncoder(enc)
           /\ IsConditional(enc)
                  <=> (c.density_bin_ranges # None
                       \/ c.pitch_histogram_window_size # None)

C10_Witness ==
    LET c == default_configs["multiconditioned_performance_with_dynamics"]
    IN /\ op = "lookup"
       /\ outcome = Return(c)
       /\ Cardinality(ControlEncoders(c.encoder_decoder)) = 2
       /\ DensityEncodings(c.encoder_decoder) # {}
       /\ HasPitchEncoder(c.encoder_decoder)
       /\ c.density_bin_ranges # None
       /\ c.pitch_histogram_window_size # None
====
